---- MODULE Spec2Model ----
(***************************************************************************)
(* Model of the COSMIC inventory standardizer                              *)
(* (src/cosmic_data_science/clean/standardize.py).                         *)
(*                                                                         *)
(* A cell of the data frame is a record [kind, s, n]:                      *)
(*   kind = "nan"  : an empty cell (pandas NaN),                           *)
(*   kind = "none" : Python None (returned by clean_taxonomy_labels),      *)
(*   kind = "num"  : a number n,                                           *)
(*   kind = "str"  : a Python str, s being its sequence of characters.     *)
(* A row is a record of ten cells, the data frame a sequence of rows.      *)
(***************************************************************************)
EXTENDS Integers, Sequences, FiniteSets

VARIABLES
    pc,      \* position in standardize_inventory_data / clean_taxonomy_labels
    input,   \* the rows of the "Inventory" sheet handed to the call
    df,      \* the data frame being transformed
    err,     \* the exception that ended the call, or "none"
    pass,    \* 1: first call on the raw sheet, 2: call on the first call's output
    first,   \* the data frame returned by the first call
    arg,     \* argument of a direct call of clean_taxonomy_labels
    ret      \* its return value

vars == <<pc, input, df, err, pass, first, arg, ret>>

----------------------------------------------------------------------------
(* Bounds of the model.                                                    *)

\* longest generated label handed directly to clean_taxonomy_labels
MaxLabelLen == 4
\* longest generated text put in a category cell or the Description cell of a sheet
MaxCellLen == 3
\* most rows of a generated multi-row sheet
MaxRows == 3

----------------------------------------------------------------------------
(* Characters and Python's str methods.                                    *)

Lowercase == <<"a", "b", "c", "d", "e", "f", "g", "h", "i", "j", "k", "l", "m",
               "n", "o", "p", "q", "r", "s", "t", "u", "v", "w", "x", "y", "z">>
Uppercase == <<"A", "B", "C", "D", "E", "F", "G", "H", "I", "J", "K", "L", "M",
               "N", "O", "P", "Q", "R", "S", "T", "U", "V", "W", "X", "Y", "Z">>
Digits == {"0", "1", "2", "3", "4", "5", "6", "7", "8", "9"}
Whitespace == {" "}

Range(f) == {f[i] : i \in DOMAIN f}
IsLower(c) == c \in Range(Lowercase)
IsUpper(c) == c \in Range(Uppercase)
IsCased(c) == IsLower(c) \/ IsUpper(c)
IsAlnum(c) == IsCased(c) \/ c \in Digits

SetMin(S) == CHOOSE x \in S : \A y \in S : x <= y
SetMax(S) == CHOOSE x \in S : \A y \in S : x >= y

\* str.upper() / str.lower() of one character
upper(c) == IF IsLower(c) THEN Uppercase[CHOOSE i \in 1..26 : Lowercase[i] = c] ELSE c
lower(c) == IF IsUpper(c) THEN Lowercase[CHOOSE i \in 1..26 : Uppercase[i] = c] ELSE c

\* str.title(): a cased character is upper-cased when the character before it is
\* not cased (or there is none), lower-cased otherwise.
title(s) == [i \in 1..Len(s) |->
               IF i > 1 /\ IsCased(s[i - 1]) THEN lower(s[i]) ELSE upper(s[i])]

\* str.strip(): leading and trailing whitespace removed
strip(s) ==
    LET keep == {i \in 1..Len(s) : s[i] \notin Whitespace}
    IN  IF keep = {} THEN <<>> ELSE SubSeq(s, SetMin(keep), SetMax(keep))

\* m = re.search(r'\d+', s); m.end(), or 0 when m is None.  re.search returns
\* the leftmost match and \d+ is greedy: the first run of digits.
search_digits_end(s) ==
    LET ds == {i \in 1..Len(s) : s[i] \in Digits}
    IN  IF ds = {} THEN 0
        ELSE LET start == SetMin(ds)
             IN  SetMax({j \in start..Len(s) : \A k \in start..j : s[k] \in Digits})

HasColon(s) == \E i \in 1..Len(s) : s[i] = ":"

\* a faulty split_colon_first: s.rsplit(':', 1)[0], the split at the last colon
split_colon_last(s) ==
    SubSeq(s, 1, SetMax({i \in 1..Len(s) : s[i] = ":"}) - 1)

\* s.split(':', 1)[0] for s containing a colon
split_colon_first(s) ==
    SubSeq(s, 1, SetMin({i \in 1..Len(s) : s[i] = ":"}) - 1)

----------------------------------------------------------------------------
(* Cells.                                                                  *)

NaN == [kind |-> "nan", s |-> <<>>, n |-> 0]
None == [kind |-> "none", s |-> <<>>, n |-> 0]
Text(s) == [kind |-> "str", s |-> s, n |-> 0]
Number(n) == [kind |-> "num", s |-> <<>>, n |-> n]

isinstance_str(v) == v.kind = "str"
isna(v) == v.kind \in {"nan", "none"}

----------------------------------------------------------------------------
(* clean_taxonomy_labels                                                   *)

insert_colon(s) ==
    IF ~HasColon(s) /\ search_digits_end(s) > 0
    THEN SubSeq(s, 1, search_digits_end(s)) \o <<":">>
            \o SubSeq(s, search_digits_end(s) + 1, Len(s))
    ELSE s

clean_taxonomy_labels(label) ==
    IF label = <<>> THEN None
    ELSE LET converted_label == insert_colon(title(strip(label)))
         IN  IF HasColon(converted_label)
             THEN Text(strip(split_colon_first(converted_label)))
             ELSE Text(converted_label)

----------------------------------------------------------------------------
(* Placeholders written by the pipeline.                                   *)

UnknownTechnologyName ==
    <<"U", "n", "k", "n", "o", "w", "n", " ", "T", "e", "c", "h", "n", "o", "l",
      "o", "g", "y", " ", "N", "a", "m", "e">>
UnknownTechProducer ==
    <<"U", "n", "k", "n", "o", "w", "n", " ", "T", "e", "c", "h", " ", "P", "r",
      "o", "d", "u", "c", "e", "r">>
NoDescriptionAvailable ==
    <<"N", "o", " ", "D", "e", "s", "c", "r", "i", "p", "t", "i", "o", "n", " ",
      "A", "v", "a", "i", "l", "a", "b", "l", "e">>
UnknownExistingTechnology ==
    <<"U", "n", "k", "n", "o", "w", "n", " ", "E", "x", "i", "s", "t", "i", "n",
      "g", " ", "T", "e", "c", "h", "n", "o", "l", "o", "g", "y">>
UnknownTechnologyCategory ==
    <<"U", "n", "k", "n", "o", "w", "n", " ", "T", "e", "c", "h", "n", "o", "l",
      "o", "g", "y", " ", "C", "a", "t", "e", "g", "o", "r", "y">>
UnknownFunctionalCategory ==
    <<"U", "n", "k", "n", "o", "w", "n", " ", "F", "u", "n", "c", "t", "i", "o",
      "n", "a", "l", " ", "C", "a", "t", "e", "g", "o", "r", "y">>

----------------------------------------------------------------------------
(* The steps of standardize_inventory_data as operators on the data frame. *)

Columns == {"TechnologyName", "TechProducer", "Description", "ExistingTechnology",
            "LevelOneCategory", "LevelTwoCategory", "LevelThreeCategory", "TRL",
            "LevelOneFunctionalCategory", "LevelTwoFunctionalCategory"}

\* read_excel with its default na_values: an empty cell and a cell holding the
\* empty string both load as NaN.
read_excel(sheet) ==
    [i \in 1..Len(sheet) |->
        [c \in Columns |-> IF sheet[i][c] = Text(<<>>) THEN NaN ELSE sheet[i][c]]]

\* a faulty drop_duplicates: drop_duplicates(keep='last')
RECURSIVE drop_from_keep_last(_, _)
drop_from_keep_last(rows, i) ==
    IF i > Len(rows) THEN <<>>
    ELSE (IF \E j \in (i + 1)..Len(rows) : rows[j] = rows[i] THEN <<>> ELSE <<rows[i]>>)
            \o drop_from_keep_last(rows, i + 1)

drop_duplicates_keep_last(rows) == drop_from_keep_last(rows, 1)

\* DataFrame.drop_duplicates(): a row equal on every column to an earlier row is
\* dropped, the first occurrence kept, the order kept.
RECURSIVE drop_from(_, _)
drop_from(rows, i) ==
    IF i > Len(rows) THEN <<>>
    ELSE (IF \E j \in 1..(i - 1) : rows[j] = rows[i] THEN <<>> ELSE <<rows[i]>>)
            \o drop_from(rows, i + 1)

drop_duplicates(rows) == drop_from(rows, 1)

\* Series.str raises AttributeError unless the column holds a str; a column of
\* numbers and empty cells only is a numeric column.
str_accessor_ok(frame, col) == \E i \in 1..Len(frame) : isinstance_str(frame[i][col])

\* Series.str.strip().str.title() on one cell: NaN for a cell that is not a str
str_strip_title(v) == IF isinstance_str(v) THEN Text(title(strip(v.s))) ELSE NaN

\* raised by len(None) inside max(categories, key=len)
TypeError == [kind |-> "TypeError", s |-> <<>>, n |-> 0]

\* [clean_taxonomy_labels(cat) for cat in cells if isinstance(cat, str)]
RECURSIVE cleaned_categories(_)
cleaned_categories(cells) ==
    IF cells = <<>> THEN <<>>
    ELSE (IF isinstance_str(Head(cells))
          THEN <<clean_taxonomy_labels(Head(cells).s)>> ELSE <<>>)
            \o cleaned_categories(Tail(cells))

\* max(categories, key=len) on a non-empty list: len is called on every item,
\* and the first item of maximal length is returned.
max_key_len(categories) ==
    IF \E i \in 1..Len(categories) : categories[i] = None THEN TypeError
    ELSE categories[SetMin({i \in 1..Len(categories) :
                \A j \in 1..Len(categories) :
                    Len(categories[j].s) <= Len(categories[i].s)})]

longest_tech_category(row) ==
    LET categories == cleaned_categories(<<row.LevelOneCategory,
                          row.LevelTwoCategory, row.LevelThreeCategory>>)
    IN  IF categories = <<>> THEN Text(UnknownTechnologyCategory)
        ELSE max_key_len(categories)

longest_functional_category(row) ==
    LET categories == cleaned_categories(<<row.LevelOneFunctionalCategory,
                          row.LevelTwoFunctionalCategory>>)
    IN  IF categories = <<>> THEN Text(UnknownFunctionalCategory)
        ELSE max_key_len(categories)

\* Series.fillna(value) on one cell
fillna(v, value) == IF isna(v) THEN value ELSE v

\* the characters CLEAN_DESCRIPTION = [^\w\s,.\-] does not match: \w is a
\* letter, a digit or the underscore
clean_description_keeps(c) ==
    IsAlnum(c) \/ c = "_" \/ c \in Whitespace \/ c \in {",", ".", "-"}

clean_description(desc) ==
    IF ~isinstance_str(desc) THEN Text(NoDescriptionAvailable)
    ELSE LET cleaned_text == SelectSeq(desc.s, clean_description_keeps)
         IN  IF strip(cleaned_text) # <<>> THEN Text(strip(cleaned_text))
             ELSE Text(NoDescriptionAvailable)

\* a faulty fill_missing: the TRL filled with a text like the other columns
fill_missing_text_trl(row) ==
    [row EXCEPT
        !.TechnologyName = fillna(@, Text(UnknownTechnologyName)),
        !.TechProducer = fillna(@, Text(UnknownTechProducer)),
        !.Description = fillna(@, Text(NoDescriptionAvailable)),
        !.ExistingTechnology = fillna(@, Text(UnknownExistingTechnology)),
        !.TRL = fillna(@, Text(<<"0">>)),
        !.LevelOneCategory = fillna(@, Text(UnknownTechnologyCategory)),
        !.LevelTwoCategory = fillna(@, Text(UnknownTechnologyCategory)),
        !.LevelThreeCategory = fillna(@, Text(UnknownTechnologyCategory)),
        !.LevelOneFunctionalCategory = fillna(@, Text(UnknownFunctionalCategory)),
        !.LevelTwoFunctionalCategory = fillna(@, Text(UnknownFunctionalCategory))]

fill_missing(row) ==
    [row EXCEPT
        !.TechnologyName = fillna(@, Text(UnknownTechnologyName)),
        !.TechProducer = fillna(@, Text(UnknownTechProducer)),
        !.Description = fillna(@, Text(NoDescriptionAvailable)),
        !.ExistingTechnology = fillna(@, Text(UnknownExistingTechnology)),
        !.TRL = fillna(@, Number(0)),
        !.LevelOneCategory = fillna(@, Text(UnknownTechnologyCategory)),
        !.LevelTwoCategory = fillna(@, Text(UnknownTechnologyCategory)),
        !.LevelThreeCategory = fillna(@, Text(UnknownTechnologyCategory)),
        !.LevelOneFunctionalCategory = fillna(@, Text(UnknownFunctionalCategory)),
        !.LevelTwoFunctionalCategory = fillna(@, Text(UnknownFunctionalCategory))]

----------------------------------------------------------------------------
(* The sheets and labels the model is run on.                              *)

BaseRow ==
    [TechnologyName |-> Text(<<" ", "r", "o", "b", "o", "t", "i", "c", " ", "a", "r", "m", " ">>),
     TechProducer |-> Text(<<"a", "c", "m", "e">>),
     Description |-> Text(<<"a", ",", " ", "b", "-", "1", ".">>),
     ExistingTechnology |-> Text(<<"y", "e", "s">>),
     LevelOneCategory |-> Text(<<"A", ":", "1">>),
     LevelTwoCategory |-> Text(<<"B", "B", ":", "2", "2">>),
     LevelThreeCategory |-> NaN,
     TRL |-> Number(5),
     LevelOneFunctionalCategory |-> Text(<<"G", "r", "a", "s", "p", ":", " ", "h", "o", "l", "d">>),
     LevelTwoFunctionalCategory |-> NaN]

\* the label of the comment at line 78 of standardize.py
CaptureLabel ==
    <<"T", "X", "0", "4", ".", "5", ".", "5", ":", " ", "C", "a", "p", "t", "u",
      "r", "e", " ", "M", "e", "c", "h", "a", "n", "i", "s", "m", "s", " ", "a",
      "n", "d", " ", "F", "i", "x", "t", "u", "r", "e", "s">>
UncolonizedLabel ==
    <<"t", "x", "0", "4", ".", "5", ".", "5", " ", "c", "a", "p", "t", "u", "r", "e">>

CategoryValues ==
    {NaN, Number(1), Text(<<" ">>), Text(<<"A", ":", "1">>),
     Text(<<"B", "B", ":", "2", "2">>), Text(<<"t", "x", "0", "4">>),
     Text(CaptureLabel),
     Text(<<"f", "o", "o", " ", "1", " ", "b", "a", "r", ":", " ", "x">>)}

NameValues ==
    {NaN, Number(7), Text(<<" ">>), Text(<<"A", "R", "M">>),
     Text(<<" ", "r", "o", "b", "o", "t", "i", "c", " ", "a", "r", "m", " ">>)}

TRLValues == {NaN, Number(0), Number(5), Number(9), Text(<<"h", "i", "g", "h">>)}

ExistingValues == {NaN, Number(1), Text(<<"y", "e", "s">>), Text(<<"N", "O", "!">>)}

LabelAlphabet == {"a", "B", "1", ":", " ", "."}
DescriptionAlphabet == {"a", "1", " ", ",", ".", "-", "_", "!"}

\* the non-empty texts over an alphabet, up to a length
Texts(alphabet, maxLen) == UNION {[1..k -> alphabet] : k \in 1..maxLen}

Labels == Texts(LabelAlphabet, MaxLabelLen) \cup {CaptureLabel, UncolonizedLabel}

\* rows of the multi-row sheets: the base row, a row that differs from it only
\* in the case and padding of a name, a row with empty cells, a row without TRL
SheetRows ==
    {BaseRow,
     [BaseRow EXCEPT !.TechnologyName = Text(<<"R", "o", "b", "o", "t", "i", "c", " ", "A", "r", "m">>)],
     [BaseRow EXCEPT !.TechnologyName = NaN, !.TechProducer = NaN,
                     !.Description = NaN, !.ExistingTechnology = NaN],
     [BaseRow EXCEPT !.TRL = NaN]}

Sheets ==
    {<<[BaseRow EXCEPT !.LevelOneCategory = a, !.LevelTwoCategory = b,
                       !.LevelThreeCategory = c]>> :
        a \in CategoryValues, b \in CategoryValues, c \in CategoryValues}
    \cup
    {<<[BaseRow EXCEPT !.LevelOneCategory = Text(s), !.LevelTwoCategory = NaN,
                       !.LevelThreeCategory = NaN]>> :
        s \in Texts(LabelAlphabet, MaxCellLen)}
    \cup
    {<<[BaseRow EXCEPT !.LevelOneFunctionalCategory = a,
                       !.LevelTwoFunctionalCategory = b]>> :
        a \in CategoryValues, b \in CategoryValues}
    \cup
    {<<[BaseRow EXCEPT !.LevelOneFunctionalCategory = Text(s),
                       !.LevelTwoFunctionalCategory = NaN]>> :
        s \in Texts(LabelAlphabet, MaxCellLen)}
    \cup
    {<<[BaseRow EXCEPT !.TechnologyName = a, !.TechProducer = b]>> :
        a \in NameValues, b \in NameValues}
    \cup
    {<<[BaseRow EXCEPT !.Description = d]>> :
        d \in {NaN, Number(3)} \cup {Text(s) : s \in Texts(DescriptionAlphabet, MaxCellLen)}}
    \cup
    {<<[BaseRow EXCEPT !.TRL = a, !.ExistingTechnology = b]>> :
        a \in TRLValues, b \in ExistingValues}
    \cup
    UNION {[1..k -> SheetRows] : k \in 2..MaxRows}

----------------------------------------------------------------------------
(* standardize_inventory_data, one action per block of statements.         *)
(* DataFrame.apply(f, axis=1) raises when f raises on a row.               *)

\* lines 70-71
Load ==
    /\ pc = "load"
    /\ df' = drop_duplicates(read_excel(input))
    /\ pc' = "normalize"
    /\ UNCHANGED <<input, err, pass, first, arg, ret>>

\* lines 74-75
NormalizeNames ==
    /\ pc = "normalize"
    /\ IF str_accessor_ok(df, "TechnologyName") /\ str_accessor_ok(df, "TechProducer")
       THEN /\ df' = [i \in 1..Len(df) |->
                        [df[i] EXCEPT !.TechnologyName = str_strip_title(@),
                                      !.TechProducer = str_strip_title(@)]]
            /\ pc' = "tech"
            /\ err' = err
       ELSE /\ err' = "AttributeError"
            /\ pc' = "raised"
            /\ df' = df
    /\ UNCHANGED <<input, pass, first, arg, ret>>

\* lines 80-97
ConsolidateTechCategories ==
    /\ pc = "tech"
    /\ IF \E i \in 1..Len(df) : longest_tech_category(df[i]) = TypeError
       THEN /\ err' = "TypeError"
            /\ pc' = "raised"
            /\ df' = df
       ELSE /\ df' = [i \in 1..Len(df) |->
                        LET taxonomy_value == longest_tech_category(df[i])
                        IN  [df[i] EXCEPT !.LevelOneCategory = taxonomy_value,
                                          !.LevelTwoCategory = taxonomy_value,
                                          !.LevelThreeCategory = taxonomy_value]]
            /\ pc' = "functional_one"
            /\ err' = err
    /\ UNCHANGED <<input, pass, first, arg, ret>>

\* lines 99-113
ConsolidateFunctionalOne ==
    /\ pc = "functional_one"
    /\ IF \E i \in 1..Len(df) : longest_functional_category(df[i]) = TypeError
       THEN /\ err' = "TypeError"
            /\ pc' = "raised"
            /\ df' = df
       ELSE /\ df' = [i \in 1..Len(df) |->
                        [df[i] EXCEPT !.LevelOneFunctionalCategory =
                                          longest_functional_category(df[i])]]
            /\ pc' = "functional_two"
            /\ err' = err
    /\ UNCHANGED <<input, pass, first, arg, ret>>

\* line 114: the function is applied again, to the frame line 113 has updated
ConsolidateFunctionalTwo ==
    /\ pc = "functional_two"
    /\ IF \E i \in 1..Len(df) : longest_functional_category(df[i]) = TypeError
       THEN /\ err' = "TypeError"
            /\ pc' = "raised"
            /\ df' = df
       ELSE /\ df' = [i \in 1..Len(df) |->
                        [df[i] EXCEPT !.LevelTwoFunctionalCategory =
                                          longest_functional_category(df[i])]]
            /\ pc' = "fill"
            /\ err' = err
    /\ UNCHANGED <<input, pass, first, arg, ret>>

\* lines 117-128
FillMissing ==
    /\ pc = "fill"
    /\ df' = [i \in 1..Len(df) |-> fill_missing(df[i])]
    /\ pc' = "description"
    /\ UNCHANGED <<input, err, pass, first, arg, ret>>

\* lines 131-145
SanitizeDescriptions ==
    /\ pc = "description"
    /\ df' = [i \in 1..Len(df) |->
                [df[i] EXCEPT !.Description = clean_description(@)]]
    /\ pc' = "done"
    /\ UNCHANGED <<input, err, pass, first, arg, ret>>

\* the returned frame, saved as a sheet, is uploaded again (app.py, main)
Reprocess ==
    /\ pc = "done"
    /\ pass = 1
    /\ first' = df
    /\ input' = df
    /\ pass' = 2
    /\ pc' = "load"
    /\ UNCHANGED <<df, err, arg, ret>>

Init ==
    /\ pc = "load"
    /\ input \in Sheets
    /\ df = <<>>
    /\ err = "none"
    /\ pass = 1
    /\ first = <<>>
    /\ arg = NaN
    /\ ret = NaN

Next ==
    \/ Load
    \/ NormalizeNames
    \/ ConsolidateTechCategories
    \/ ConsolidateFunctionalOne
    \/ ConsolidateFunctionalTwo
    \/ FillMissing
    \/ SanitizeDescriptions
    \/ Reprocess

Spec == Init /\ [][Next]_vars

----------------------------------------------------------------------------
(* clean_taxonomy_labels called on its own, on every generated label.      *)

CleanLabel ==
    /\ pc = "call"
    /\ ret' = clean_taxonomy_labels(arg.s)
    /\ pc' = "returned"
    /\ UNCHANGED <<input, df, err, pass, first, arg>>

InitLabel ==
    /\ pc = "call"
    /\ arg \in {Text(l) : l \in Labels}
    /\ ret = NaN
    /\ input = <<>>
    /\ df = <<>>
    /\ err = "none"
    /\ pass = 1
    /\ first = <<>>

SpecLabel == InitLabel /\ [][CleanLabel]_vars

----------------------------------------------------------------------------
(* Properties.                                                             *)

\* the frame the current call works on: the sheet as loaded, duplicates dropped;
\* row i of df is computed from row i of it
Loaded == drop_duplicates(read_excel(input))

\* the call has returned a frame
Returned == pc = "done"

\* C1: standardize is idempotent: run on the frame a first call returned, it
\* returns that frame again, row for row and field for field.
C1_Idempotent ==
    (pass = 2 /\ pc \in {"done", "raised"}) => (pc = "done" /\ df = first)

\* C2: in every row of the returned frame the three technology-category cells
\* are equal and the two functional-category cells are equal.
C2_CategoriesIdentical ==
    Returned =>
        \A i \in 1..Len(df) :
            /\ df[i].LevelOneCategory = df[i].LevelTwoCategory
            /\ df[i].LevelTwoCategory = df[i].LevelThreeCategory
            /\ df[i].LevelOneFunctionalCategory = df[i].LevelTwoFunctionalCategory

\* C3: in every row of the returned frame no cell of the ten columns is
\* null/NaN or the empty string.
C3_NoEmptyField ==
    Returned =>
        \A i \in 1..Len(df) : \A c \in Columns :
            ~isna(df[i][c]) /\ df[i][c] # Text(<<>>)

\* C4: after deduplication the frame holds exactly the distinct rows of the
\* loaded sheet, once each, in the order of their first occurrences; no later
\* step adds or removes a row.
C4_Deduplication ==
    LET raw == read_excel(input)
        FirstAt(r) == SetMin({k \in 1..Len(raw) : raw[k] = r})
    IN  pc # "load" =>
            /\ Len(df) = Cardinality(Range(raw))
            /\ pc = "normalize" =>
                /\ Range(df) = Range(raw)
                /\ \A i \in 1..Len(df) : \A j \in 1..Len(df) :
                        i < j => FirstAt(df[i]) < FirstAt(df[j])

\* C4 witness: a sheet [A, A, B] has been processed into two rows.
C4_Witness ==
    LET raw == read_excel(input)
    IN  /\ Returned /\ pass = 1
        /\ Len(raw) = 3 /\ raw[1] = raw[2] /\ raw[3] # raw[1]
        /\ Len(df) = 2

\* the label of C5 and its repaired forms
CaptureCode == <<"T", "X", "0", "4", ".", "5", ".", "5">>
CaptureCodeTitled == <<"T", "x", "0", "4", ".", "5", ".", "5">>

\* C5 as stated: a label with a colon is repaired to the text before its first
\* colon, trimmed, and the capture label is repaired to "TX04.5.5".
C5_PrefixVerbatim ==
    (pc = "returned" /\ HasColon(arg.s)) =>
        /\ \E i \in 1..Len(arg.s) :
                /\ arg.s[i] = ":"
                /\ \A j \in 1..(i - 1) : arg.s[j] # ":"
                /\ ret = Text(strip(SubSeq(arg.s, 1, i - 1)))
        /\ arg.s = CaptureLabel => ret = Text(CaptureCode)

\* C5 amended: a label with a colon is repaired to the text before its first
\* colon, trimmed and title-cased; the capture label is repaired to "Tx04.5.5".
C5_PrefixTitled ==
    (pc = "returned" /\ HasColon(arg.s)) =>
        /\ \E i \in 1..Len(arg.s) :
                /\ arg.s[i] = ":"
                /\ \A j \in 1..(i - 1) : arg.s[j] # ":"
                /\ ret = Text(title(strip(SubSeq(arg.s, 1, i - 1))))
        /\ arg.s = CaptureLabel => ret = Text(CaptureCodeTitled)

\* C5 witness: the capture label has been repaired.
C5_Witness ==
    pc = "returned" /\ arg.s = CaptureLabel /\ ret = Text(CaptureCodeTitled)

\* C6: a label without a colon is repaired to its trimmed, title-cased text up
\* to the end of its LAST run of digits, or to the whole trimmed, title-cased
\* text when it has no digit.
C6_LastDigitRun ==
    (pc = "returned" /\ ~HasColon(arg.s)) =>
        LET t == title(strip(arg.s))
            ds == {i \in 1..Len(t) : t[i] \in Digits}
        IN  IF ds = {} THEN ret = Text(t)
            ELSE ret = Text(strip(SubSeq(t, 1, SetMax(ds))))

\* the value C7 states for a group of category cells: the longest repaired
\* label of the cells that are text, the earliest on ties, else the fallback
Consolidated(cells, fallback) ==
    LET texts == {k \in 1..Len(cells) : isinstance_str(cells[k])}
        rep(k) == clean_taxonomy_labels(cells[k].s)
    IN  IF texts = {} THEN Text(fallback)
        ELSE rep(SetMin({k \in texts :
                    \A j \in texts : Len(rep(j).s) <= Len(rep(k).s)}))

\* C7: every category cell of a returned row holds the consolidated value of
\* its group in the loaded row: the three technology cells that of the
\* technology group, the two functional cells that of the functional group.
C7_Consolidation ==
    Returned =>
        \A i \in 1..Len(df) :
            LET tech == Consolidated(<<Loaded[i].LevelOneCategory,
                            Loaded[i].LevelTwoCategory,
                            Loaded[i].LevelThreeCategory>>, UnknownTechnologyCategory)
                func == Consolidated(<<Loaded[i].LevelOneFunctionalCategory,
                            Loaded[i].LevelTwoFunctionalCategory>>,
                            UnknownFunctionalCategory)
            IN  /\ df[i].LevelOneCategory = tech
                /\ df[i].LevelTwoCategory = tech
                /\ df[i].LevelThreeCategory = tech
                /\ df[i].LevelOneFunctionalCategory = func
                /\ df[i].LevelTwoFunctionalCategory = func

\* C8: a category cell that repairs to "no value" never makes the call fail:
\* the longest-value selection never raises.
C8_NoValueNeverFails == err # "TypeError"

\* the characters C9 states a description keeps
C9_Keeps(c) == IsAlnum(c) \/ c \in Whitespace \/ c \in {",", ".", "-"}

\* C9: the returned Description is the placeholder when the loaded one is
\* absent or not text; otherwise the loaded text with every character that is
\* not alphanumeric, whitespace, comma, period or hyphen removed, trimmed, or
\* the placeholder when that is empty; so it is non-empty and holds only such
\* characters.
C9_DescriptionSanitized ==
    Returned =>
        \A i \in 1..Len(df) :
            LET d == Loaded[i].Description
                kept == strip(SelectSeq(d.s, C9_Keeps))
                out == df[i].Description
            IN  /\ out = IF ~isinstance_str(d) \/ kept = <<>>
                         THEN Text(NoDescriptionAvailable) ELSE Text(kept)
                /\ isinstance_str(out) /\ out.s # <<>>
                /\ \A k \in 1..Len(out.s) : C9_Keeps(out.s[k])

\* C10: an absent TRL is returned as the number 0 and an absent Existing
\* Technology as its placeholder; a TRL or Existing Technology present in the
\* loaded row is the same after every step of the pipeline.
C10_TRLAndExisting ==
    pc # "load" =>
        /\ Len(df) = Len(Loaded)
        /\ \A i \in 1..Len(df) :
            /\ ~isna(Loaded[i].TRL) => df[i].TRL = Loaded[i].TRL
            /\ ~isna(Loaded[i].ExistingTechnology) =>
                    df[i].ExistingTechnology = Loaded[i].ExistingTechnology
            /\ (Returned /\ isna(Loaded[i].TRL)) => df[i].TRL = Number(0)
            /\ (Returned /\ isna(Loaded[i].ExistingTechnology)) =>
                    df[i].ExistingTechnology = Text(UnknownExistingTechnology)

\* C10 witness: a returned frame with a filled TRL, a filled Existing
\* Technology and a TRL that was present and is unchanged.
C10_Witness ==
    /\ Returned /\ pass = 1
    /\ \E i \in 1..Len(df) : Loaded[i].TRL = NaN /\ df[i].TRL = Number(0)
    /\ \E i \in 1..Len(df) :
            /\ Loaded[i].ExistingTechnology = NaN
            /\ df[i].ExistingTechnology = Text(UnknownExistingTechnology)
    /\ \E i \in 1..Len(df) : Loaded[i].TRL = Number(5) /\ df[i].TRL = Number(5)

====
